---- MODULE Spec2Model ----
(***************************************************************************)
(* FormBuilder (forms-deprecated/form_builder.ts): a stateless factory     *)
(* that turns a loosely typed configuration into Control / ControlGroup /  *)
(* ControlArray objects.                                                   *)
(*                                                                         *)
(* Objects with identity (arrays, plain mappings, controls) live in a      *)
(* heap: a sequence of object records, an object's identity being its      *)
(* index.  A value is a tagged record: a scalar, a function, undefined,    *)
(* null, or a reference into the heap.                                     *)
(***************************************************************************)
EXTENDS Naturals, Sequences, FiniteSets

VARIABLES heap, pre, last, calls, builder

vars == <<heap, pre, last, calls, builder>>

\* Number of builder calls made in one behaviour.
MaxCalls == 2

(* ------------------------------ values -------------------------------- *)

Undefined == [tag |-> "undefined", n |-> 0]
Null      == [tag |-> "null", n |-> 0]
Str(k)    == [tag |-> "str", n |-> k]
Fn(k)     == [tag |-> "fn", n |-> k]
Ref(i)    == [tag |-> "ref", n |-> i]

\* facade/lang isPresent: neither undefined nor null.
isPresent(v) == v.tag # "undefined" /\ v.tag # "null"

\* A TypeScript default parameter (= null): an omitted or undefined
\* argument becomes null.
DefaultNull(v) == IF v = Undefined THEN Null ELSE v

(* --------------------------- heap objects ----------------------------- *)

Blank ==
  [kind |-> "", keys |-> <<>>, elems |-> <<>>, value |-> Undefined,
   validator |-> Undefined, asyncValidator |-> Undefined,
   optionals |-> Undefined, controls |-> Undefined]

ArrayObj(elems) == [Blank EXCEPT !.kind = "Array", !.elems = elems]

ObjectObj(keys, elems) ==
  [Blank EXCEPT !.kind = "Object", !.keys = keys, !.elems = elems]

ControlObj(value, validator, asyncValidator) ==
  [Blank EXCEPT !.kind = "Control", !.value = value,
                !.validator = validator, !.asyncValidator = asyncValidator]

ControlGroupObj(controls, optionals, validator, asyncValidator) ==
  [Blank EXCEPT !.kind = "ControlGroup", !.controls = controls,
                !.optionals = optionals, !.validator = validator,
                !.asyncValidator = asyncValidator]

ControlArrayObj(controls, validator, asyncValidator) ==
  [Blank EXCEPT !.kind = "ControlArray", !.controls = controls,
                !.validator = validator, !.asyncValidator = asyncValidator]

InstanceKinds == {"Control", "ControlGroup", "ControlArray"}

IsRef(h, v) == v.tag = "ref" /\ v.n \in 1..Len(h)

\* controlConfig instanceof Control || ... ControlGroup || ... ControlArray
IsInstance(h, v) == IsRef(h, v) /\ h[v.n].kind \in InstanceKinds

\* facade/lang isArray
isArray(h, v) == IsRef(h, v) /\ h[v.n].kind = "Array"

IsObject(h, v) == IsRef(h, v) /\ h[v.n].kind = "Object"

\* a[i] of JavaScript (0-based): undefined past the end, never a fault.
Idx(a, i) == IF i + 1 <= Len(a) THEN a[i + 1] ELSE Undefined

KeyPos(keys, k) ==
  IF \E i \in 1..Len(keys) : keys[i] = k
  THEN CHOOSE i \in 1..Len(keys) : keys[i] = k
  ELSE 0

\* facade/collection StringMapWrapper.get: map[key], undefined when absent.
StringMapWrapper_get(h, map, key) ==
  IF IsObject(h, map) /\ KeyPos(h[map.n].keys, key) # 0
  THEN h[map.n].elems[KeyPos(h[map.n].keys, key)]
  ELSE Undefined

\* obj[key] = val on the plain mapping at ref.
SetKey(h, ref, key, val) ==
  LET o == h[ref.n]
      p == KeyPos(o.keys, key)
  IN IF p # 0
     THEN [h EXCEPT ![ref.n].elems[p] = val]
     ELSE [h EXCEPT ![ref.n].keys = Append(o.keys, key),
                    ![ref.n].elems = Append(o.elems, val)]

\* array.push(val) on the array at ref.
Push(h, ref, val) == [h EXCEPT ![ref.n].elems = Append(h[ref.n].elems, val)]

(* --------------------------- call outcomes ---------------------------- *)

\* The outcome of a call: the heap it leaves, the value it returns, whether
\* it threw, and how many configuration entries it resolved.
Ok(h, r, n) == [h |-> h, r |-> r, fault |-> FALSE, n |-> n]
Thrown(h, n) == [h |-> h, r |-> Undefined, fault |-> TRUE, n |-> n]

\* A validator argument the model constructors cannot run: present and not
\* a function.
NotCallable(v) == isPresent(v) /\ v.tag # "fn"

(* ------------------- model constructors (model.ts) -------------------- *)

\* new Control(value, validator, asyncValidator)
NewControl(h, value, validator, asyncValidator) ==
  IF NotCallable(validator) \/ NotCallable(asyncValidator)
  THEN Thrown(h, 0)
  ELSE Ok(Append(h, ControlObj(value, validator, asyncValidator)),
          Ref(Len(h) + 1), 0)

\* new ControlGroup(controls, optionals, validator, asyncValidator)
NewControlGroup(h, controls, optionals, validator, asyncValidator, n) ==
  IF NotCallable(validator) \/ NotCallable(asyncValidator)
  THEN Thrown(h, n)
  ELSE Ok(Append(h, ControlGroupObj(controls, optionals, validator,
                                    asyncValidator)),
          Ref(Len(h) + 1), n)

\* new ControlArray(controls, validator, asyncValidator)
NewControlArray(h, controls, validator, asyncValidator, n) ==
  IF NotCallable(validator) \/ NotCallable(asyncValidator)
  THEN Thrown(h, n)
  ELSE Ok(Append(h, ControlArrayObj(controls, validator, asyncValidator)),
          Ref(Len(h) + 1), n)

(* ---------------------------- FormBuilder ----------------------------- *)

\* control as a memoising factory: an existing Control with the same
\* value and validators is handed out again.
control_cached(h, value, validator, asyncValidator) ==
  LET o == ControlObj(value, DefaultNull(validator),
                      DefaultNull(asyncValidator))
  IN IF \E i \in 1..Len(h) : h[i] = o
     THEN Ok(h, Ref(CHOOSE i \in 1..Len(h) : h[i] = o), 0)
     ELSE NewControl(h, value, DefaultNull(validator),
                     DefaultNull(asyncValidator))

\* control(value, validator = null, asyncValidator = null)
control(h, value, validator, asyncValidator) ==
  NewControl(h, value, DefaultNull(validator), DefaultNull(asyncValidator))

\* _createControl testing length > 2 for the validator as well.
createControl_lengthSlip(h, controlConfig) ==
  IF IsInstance(h, controlConfig)
  THEN Ok(h, controlConfig, 0)
  ELSE IF isArray(h, controlConfig)
  THEN LET a == h[controlConfig.n].elems
           value == Idx(a, 0)
           validator == IF Len(a) > 2 THEN Idx(a, 1) ELSE Null
           asyncValidator == IF Len(a) > 2 THEN Idx(a, 2) ELSE Null
       IN control(h, value, validator, asyncValidator)
  ELSE control(h, controlConfig, Undefined, Undefined)

\* _createControl whose instance test names Control only.
createControl_controlOnly(h, controlConfig) ==
  IF IsRef(h, controlConfig) /\ h[controlConfig.n].kind = "Control"
  THEN Ok(h, controlConfig, 0)
  ELSE IF isArray(h, controlConfig)
  THEN LET a == h[controlConfig.n].elems
           value == Idx(a, 0)
           validator == IF Len(a) > 1 THEN Idx(a, 1) ELSE Null
           asyncValidator == IF Len(a) > 2 THEN Idx(a, 2) ELSE Null
       IN control(h, value, validator, asyncValidator)
  ELSE control(h, controlConfig, Undefined, Undefined)

\* _createControl rejecting a sequence with no value element.
createControl_checked(h, controlConfig) ==
  IF IsInstance(h, controlConfig)
  THEN Ok(h, controlConfig, 0)
  ELSE IF isArray(h, controlConfig)
  THEN LET a == h[controlConfig.n].elems
           value == Idx(a, 0)
           validator == IF Len(a) > 1 THEN Idx(a, 1) ELSE Null
           asyncValidator == IF Len(a) > 2 THEN Idx(a, 2) ELSE Null
       IN IF Len(a) = 0
          THEN Thrown(h, 0)
          ELSE control(h, value, validator, asyncValidator)
  ELSE control(h, controlConfig, Undefined, Undefined)

\* _createControl turning a plain mapping into a ControlGroup.
createControl_nesting(h, controlConfig) ==
  IF IsInstance(h, controlConfig)
  THEN Ok(h, controlConfig, 0)
  ELSE IF isArray(h, controlConfig)
  THEN LET a == h[controlConfig.n].elems
           value == Idx(a, 0)
           validator == IF Len(a) > 1 THEN Idx(a, 1) ELSE Null
           asyncValidator == IF Len(a) > 2 THEN Idx(a, 2) ELSE Null
       IN control(h, value, validator, asyncValidator)
  ELSE IF IsObject(h, controlConfig)
  THEN NewControlGroup(h, controlConfig, Null, Null, Null, 0)
  ELSE control(h, controlConfig, Undefined, Undefined)

\* _createControl(controlConfig)
_createControl(h, controlConfig) ==
  IF IsInstance(h, controlConfig)
  THEN Ok(h, controlConfig, 0)
  ELSE IF isArray(h, controlConfig)
  THEN LET a == h[controlConfig.n].elems
           value == Idx(a, 0)
           validator == IF Len(a) > 1 THEN Idx(a, 1) ELSE Null
           asyncValidator == IF Len(a) > 2 THEN Idx(a, 2) ELSE Null
       IN control(h, value, validator, asyncValidator)
  ELSE control(h, controlConfig, Undefined, Undefined)

\* The forEach with each callback wrapped in try/catch: an entry that
\* throws is skipped and the loop goes on.
RECURSIVE ReduceFrom_swallow(_, _, _, _, _)
ReduceFrom_swallow(h, names, controlsConfig, controls, i) ==
  IF i > Len(names)
  THEN Ok(h, controls, Len(names))
  ELSE LET c == _createControl(h, StringMapWrapper_get(h, controlsConfig,
                                                       names[i]))
       IN IF c.fault
          THEN ReduceFrom_swallow(c.h, names, controlsConfig, controls,
                                  i + 1)
          ELSE ReduceFrom_swallow(SetKey(c.h, controls, names[i], c.r),
                                  names, controlsConfig, controls, i + 1)

\* The forEach of _reduceControls from entry i on:
\*   controls[controlName] = this._createControl(controlConfig)
RECURSIVE ReduceFrom(_, _, _, _, _)
ReduceFrom(h, names, controlsConfig, controls, i) ==
  IF i > Len(names)
  THEN Ok(h, controls, Len(names))
  ELSE LET c == _createControl(h, StringMapWrapper_get(h, controlsConfig,
                                                       names[i]))
       IN IF c.fault
          THEN Thrown(c.h, i)
          ELSE ReduceFrom(SetKey(c.h, controls, names[i], c.r), names,
                          controlsConfig, controls, i + 1)

\* _reduceControls whose loop starts at the second key.
reduceControls_skipFirst(h, controlsConfig) ==
  LET h1 == Append(h, ObjectObj(<<>>, <<>>))
  IN ReduceFrom(h1, h[controlsConfig.n].keys, controlsConfig,
                Ref(Len(h1)), 2)

\* _reduceControls with controls = controlsConfig: the resolved controls
\* are written into the caller's mapping.
reduceControls_inPlace(h, controlsConfig) ==
  ReduceFrom(h, h[controlsConfig.n].keys, controlsConfig, controlsConfig, 1)

\* _reduceControls(controlsConfig): controls = {}, then the forEach over
\* the keys controlsConfig has when the loop starts.
_reduceControls(h, controlsConfig) ==
  LET h1 == Append(h, ObjectObj(<<>>, <<>>))
  IN ReduceFrom(h1, h[controlsConfig.n].keys, controlsConfig,
                Ref(Len(h1)), 1)

\* group reading asyncValidator from the 'validator' key.
group_wrongKey(h, controlsConfig, extra) ==
  LET x == DefaultNull(extra)
      c == _reduceControls(h, controlsConfig)
      optionals ==
        IF isPresent(x) THEN StringMapWrapper_get(c.h, x, "optionals")
        ELSE Null
      validator ==
        IF isPresent(x) THEN StringMapWrapper_get(c.h, x, "validator")
        ELSE Null
      asyncValidator ==
        IF isPresent(x) THEN StringMapWrapper_get(c.h, x, "validator")
        ELSE Null
  IN IF c.fault
     THEN c
     ELSE NewControlGroup(c.h, c.r, optionals, validator, asyncValidator,
                          c.n)

\* group(controlsConfig, extra = null)
group(h, controlsConfig, extra) ==
  LET x == DefaultNull(extra)
      c == _reduceControls(h, controlsConfig)
      optionals ==
        IF isPresent(x) THEN StringMapWrapper_get(c.h, x, "optionals")
        ELSE Null
      validator ==
        IF isPresent(x) THEN StringMapWrapper_get(c.h, x, "validator")
        ELSE Null
      asyncValidator ==
        IF isPresent(x) THEN StringMapWrapper_get(c.h, x, "asyncValidator")
        ELSE Null
  IN IF c.fault
     THEN c
     ELSE NewControlGroup(c.h, c.r, optionals, validator, asyncValidator,
                          c.n)

\* controlsConfig.map(c => this._createControl(c)) from element i on.
RECURSIVE MapFrom(_, _, _, _)
MapFrom(h, controlsConfig, controls, i) ==
  IF i > Len(h[controlsConfig.n].elems)
  THEN Ok(h, controls, i - 1)
  ELSE LET c == _createControl(h, h[controlsConfig.n].elems[i])
       IN IF c.fault
          THEN Thrown(c.h, i)
          ELSE MapFrom(Push(c.h, controls, c.r), controlsConfig, controls,
                       i + 1)

\* The map callback adding each control at the front (unshift).
RECURSIVE MapFrom_unshift(_, _, _, _)
MapFrom_unshift(h, controlsConfig, controls, i) ==
  IF i > Len(h[controlsConfig.n].elems)
  THEN Ok(h, controls, i - 1)
  ELSE LET c == _createControl(h, h[controlsConfig.n].elems[i])
       IN IF c.fault
          THEN Thrown(c.h, i)
          ELSE MapFrom_unshift(
                 [c.h EXCEPT ![controls.n].elems =
                                <<c.r>> \o c.h[controls.n].elems],
                 controlsConfig, controls, i + 1)

\* array with its controls collected in reverse order.
array_reversed(h, controlsConfig, validator, asyncValidator) ==
  IF ~isArray(h, controlsConfig)
  THEN Thrown(h, 0)
  ELSE LET h1 == Append(h, ArrayObj(<<>>))
           c == MapFrom_unshift(h1, controlsConfig, Ref(Len(h1)), 1)
       IN IF c.fault
          THEN c
          ELSE NewControlArray(c.h, c.r, DefaultNull(validator),
                               DefaultNull(asyncValidator), c.n)

\* array(controlsConfig, validator = null, asyncValidator = null)
array(h, controlsConfig, validator, asyncValidator) ==
  IF ~isArray(h, controlsConfig)
  THEN Thrown(h, 0)
  ELSE LET h1 == Append(h, ArrayObj(<<>>))
           c == MapFrom(h1, controlsConfig, Ref(Len(h1)), 1)
       IN IF c.fault
          THEN c
          ELSE NewControlArray(c.h, c.r, DefaultNull(validator),
                               DefaultNull(asyncValidator), c.n)

(* ---------------------- the caller's configuration --------------------- *)

\* A configuration literal as the caller writes it: a value, an array
\* literal [..] or an object literal {..}, nested.
DVal(v) == [d |-> "val", v |-> v, keys |-> <<>>, items |-> <<>>]
DArr(items) == [d |-> "arr", v |-> Undefined, keys |-> <<>>, items |-> items]
DObj(keys, items) ==
  [d |-> "obj", v |-> Undefined, keys |-> keys, items |-> items]

\* Evaluating a literal allocates its arrays and objects, inner ones first.
RECURSIVE Materialize(_, _), MatItems(_, _, _, _)
MatItems(h, items, i, acc) ==
  IF i > Len(items)
  THEN [h |-> h, vs |-> acc]
  ELSE LET m == Materialize(h, items[i])
       IN MatItems(m.h, items, i + 1, Append(acc, m.v))

Materialize(h, d) ==
  IF d.d = "val"
  THEN [h |-> h, v |-> d.v]
  ELSE LET ms == MatItems(h, d.items, 1, <<>>)
           o == IF d.d = "arr" THEN ArrayObj(ms.vs)
                ELSE ObjectObj(d.keys, ms.vs)
       IN [h |-> Append(ms.h, o), v |-> Ref(Len(ms.h) + 1)]

\* The controls, groups and arrays built so far, which a later
\* configuration may embed.
Insts(h) == {Ref(i) : i \in {j \in 1..Len(h) : h[j].kind \in InstanceKinds}}

SyncV == Fn(1)
AsyncV == Fn(2)
\* "b" where a validator is expected: present and not a function.
BadV == Str(2)

T0 == DArr(<<>>)
T1 == DArr(<<DVal(Str(1))>>)
T2 == DArr(<<DVal(Str(2)), DVal(SyncV)>>)
T3 == DArr(<<DVal(Str(1)), DVal(SyncV), DVal(AsyncV)>>)
T4 == DArr(<<DVal(Str(1)), DVal(SyncV), DVal(AsyncV), DVal(Str(2))>>)
TBad == DArr(<<DVal(Str(1)), DVal(BadV)>>)
TNullV == DArr(<<DVal(Str(1)), DVal(Null), DVal(AsyncV)>>)
TUndef == DArr(<<DVal(Str(2)), DVal(Undefined)>>)
TNest == DArr(<<DArr(<<DVal(Str(2))>>)>>)
PlainMap == DObj(<<"z">>, <<DVal(Str(2))>>)

\* Nodes handed to _createControl.
NodeDescs(h) ==
  {DVal(Str(1)), T0, T1, T2, T3, T4, TBad, TNullV, TUndef, TNest, PlainMap}
    \cup {DVal(c) : c \in Insts(h)}
    \cup {DArr(<<DVal(c)>>) : c \in Insts(h)}

\* Nodes used as the entries of a group or an array configuration.
EntryDescs(h) ==
  {DVal(Str(1)), T0, T2, TBad, PlainMap} \cup {DVal(c) : c \in Insts(h)}

PairCore == {DVal(Str(1)), T2, TBad}

EntryPairs(h) ==
  {p \in PairCore \X PairCore : p[1] # p[2]}
    \cup {<<T1, DVal(c)>> : c \in Insts(h)}

MapDescs(h) ==
  {DObj(<<>>, <<>>)}
    \cup {DObj(<<"x">>, <<e>>) : e \in EntryDescs(h)}
    \cup {DObj(<<"x", "y">>, p) : p \in EntryPairs(h)}

ArrayDescs(h) ==
  {DVal(Str(1)), DArr(<<>>)}
    \cup {DArr(<<e>>) : e \in EntryDescs(h)}
    \cup {DArr(p) : p \in EntryPairs(h)}

Optionals == DObj(<<"x">>, <<DVal(Str(1))>>)

\* The extra argument of group; DVal(Undefined) is the omitted argument.
ExtraDescs ==
  {DVal(Undefined), DVal(Null), DObj(<<>>, <<>>),
   DObj(<<"optionals">>, <<Optionals>>),
   DObj(<<"validator", "asyncValidator">>, <<DVal(SyncV), DVal(AsyncV)>>),
   DObj(<<"asyncValidator", "optionals", "validator">>,
        <<DVal(AsyncV), Optionals, DVal(SyncV)>>),
   DObj(<<"validator">>, <<DVal(BadV)>>)}

\* The validator arguments of control and array; Undefined is an omitted one.
ValidatorArgs ==
  {<<Undefined, Undefined>>, <<SyncV, Undefined>>, <<SyncV, AsyncV>>,
   <<BadV, Undefined>>}

(* ----------------------------- the system ----------------------------- *)

NoCall ==
  [op |-> "none", args |-> <<>>, fault |-> FALSE, result |-> Undefined,
   n |-> 0]

Init ==
  /\ heap = <<>>
  /\ pre = <<>>
  /\ last = NoCall
  /\ calls = 0
  /\ builder = {}

\* A call made on heap h0 (the configuration already evaluated) ended as out.
Finish(op, args, h0, out) ==
  /\ heap' = out.h
  /\ pre' = h0
  /\ last' = [op |-> op, args |-> args, fault |-> out.fault,
              result |-> out.r, n |-> out.n]
  /\ calls' = calls + 1
  /\ UNCHANGED builder

Control ==
  /\ calls < MaxCalls
  /\ \E value \in {Str(1), Str(2)}, va \in ValidatorArgs :
       Finish("control", <<value, va[1], va[2]>>, heap,
              control(heap, value, va[1], va[2]))

CreateControl ==
  /\ calls < MaxCalls
  /\ \E d \in NodeDescs(heap) :
       LET m == Materialize(heap, d)
       IN Finish("_createControl", <<m.v>>, m.h, _createControl(m.h, m.v))

Group ==
  /\ calls < MaxCalls
  /\ \E d \in MapDescs(heap), e \in ExtraDescs :
       /\ e = DVal(Undefined) \/ d = DObj(<<"x">>, <<T2>>)
       /\ LET m == Materialize(heap, d)
              x == Materialize(m.h, e)
          IN Finish("group", <<m.v, x.v>>, x.h, group(x.h, m.v, x.v))

Array ==
  /\ calls < MaxCalls
  /\ \E d \in ArrayDescs(heap), va \in ValidatorArgs :
       /\ va = <<Undefined, Undefined>> \/ d = DArr(<<T2>>)
       /\ LET m == Materialize(heap, d)
          IN Finish("array", <<m.v, va[1], va[2]>>, m.h,
                    array(m.h, m.v, va[1], va[2]))

Next == Control \/ CreateControl \/ Group \/ Array

Spec == Init /\ [][Next]_vars

(* ------------------------------ properties ---------------------------- *)

Returned == ~last.fault

\* The configuration container of the last group or array call, as it was
\* when the call started.
Config == pre[last.args[1].n]

\* The object the last call returned and the container of its controls.
Result == heap[last.result.n]
Held == heap[Result.controls.n]

GroupReturned == last.op = "group" /\ Returned
ArrayReturned == last.op = "array" /\ Returned

\* The last call was _createControl on a sequence node of length in lens.
TupleCall(lens) ==
  /\ last.op = "_createControl"
  /\ isArray(pre, last.args[1])
  /\ Len(pre[last.args[1].n].elems) \in lens

\* got is what resolving node on the heap pre yields: the instance itself,
\* or a Control made in the call with the content _createControl gives it.
Resolves(node, got) ==
  LET exp == _createControl(pre, node)
  IN /\ ~exp.fault
     /\ IF IsInstance(pre, node)
        THEN got = node
        ELSE /\ IsRef(heap, got)
             /\ got.n > Len(pre)
             /\ heap[got.n] = exp.h[exp.r.n]

\* C1: _createControl on a sequence of length 1, 2 or 3 ends as
\* control(element 0, element 1 or null, element 2 or null) does on the
\* same heap; [v] gives both validators null, [v, val] a null async
\* validator.
C1_TupleAsControlCall ==
  TupleCall(1..3) =>
    LET a == pre[last.args[1].n].elems
        c == control(pre, a[1], IF Len(a) > 1 THEN a[2] ELSE Null,
                     IF Len(a) > 2 THEN a[3] ELSE Null)
    IN /\ heap = c.h
       /\ last.result = c.r
       /\ last.fault = c.fault
       /\ Returned =>
            /\ Result.kind = "Control"
            /\ Result.value = a[1]
            /\ Len(a) = 1 =>
                 Result.validator = Null /\ Result.asyncValidator = Null
            /\ Len(a) = 2 =>
                 /\ Result.validator = DefaultNull(a[2])
                 /\ Result.asyncValidator = Null
            /\ Len(a) = 3 =>
                 /\ Result.validator = DefaultNull(a[2])
                 /\ Result.asyncValidator = DefaultNull(a[3])

C1_Witness ==
  /\ TupleCall({2})
  /\ Returned
  /\ Result.validator = SyncV
  /\ Result.asyncValidator = Null

\* C2: _createControl returns a pre-built Control, ControlGroup or
\* ControlArray itself and allocates nothing; group holds such an entry
\* under its key and array at its index.
C2_PassThrough ==
  /\ (last.op = "_createControl" /\ IsInstance(pre, last.args[1])) =>
       Returned /\ last.result = last.args[1] /\ heap = pre
  /\ GroupReturned =>
       \A i \in 1..Len(Config.keys) :
         IsInstance(pre, Config.elems[i]) =>
           StringMapWrapper_get(heap, Result.controls, Config.keys[i])
             = Config.elems[i]
  /\ ArrayReturned =>
       /\ Len(Held.elems) = Len(Config.elems)
       /\ \A i \in 1..Len(Config.elems) :
            IsInstance(pre, Config.elems[i]) =>
              Held.elems[i] = Config.elems[i]

C2_Witness ==
  /\ GroupReturned
  /\ Len(Config.keys) = 1
  /\ IsInstance(pre, Config.elems[1])
  /\ pre[Config.elems[1].n].kind = "ControlArray"
  /\ Held.elems = Config.elems

\* C3: group(m) builds a ControlGroup whose controls mapping has exactly
\* the keys of m, each holding what _createControl gives for m's value.
C3_GroupKeys ==
  GroupReturned =>
    /\ Result.kind = "ControlGroup"
    /\ IsObject(heap, Result.controls)
    /\ Held.keys = Config.keys
    /\ Len(Held.elems) = Len(Held.keys)
    /\ \A i \in 1..Len(Config.keys) :
         Resolves(Config.elems[i],
                  StringMapWrapper_get(heap, Result.controls,
                                       Config.keys[i]))

C3_Witness ==
  /\ GroupReturned
  /\ Held.keys = <<"x", "y">>
  /\ heap[Held.elems[1].n] = ControlObj(Str(1), Null, Null)
  /\ heap[Held.elems[2].n] = ControlObj(Str(2), SyncV, Null)

\* C4: array(a) builds a ControlArray whose element list has the length
\* of a, element i being what _createControl gives for a[i].
C4_ArrayOrder ==
  ArrayReturned =>
    /\ Result.kind = "ControlArray"
    /\ isArray(heap, Result.controls)
    /\ Len(Held.elems) = Len(Config.elems)
    /\ \A i \in 1..Len(Config.elems) :
         Resolves(Config.elems[i], Held.elems[i])

C4_Witness ==
  /\ ArrayReturned
  /\ Len(Held.elems) = 2
  /\ heap[Held.elems[1].n] = ControlObj(Str(2), SyncV, Null)
  /\ heap[Held.elems[2].n] = ControlObj(Str(1), Null, Null)

\* The value extra gives for key, and whether it names key at all.
ExtraHas(key) ==
  IsObject(pre, last.args[2]) /\ KeyPos(pre[last.args[2].n].keys, key) # 0
ExtraValue(key) ==
  pre[last.args[2].n].elems[KeyPos(pre[last.args[2].n].keys, key)]

\* C5: the ControlGroup is constructed with extra's optionals, validator
\* and asyncValidator; each is none (null or undefined) when extra is
\* absent or lacks the key.
C5_GroupExtra ==
  GroupReturned =>
    /\ IF ExtraHas("optionals")
       THEN Result.optionals = ExtraValue("optionals")
       ELSE ~isPresent(Result.optionals)
    /\ IF ExtraHas("validator")
       THEN Result.validator = ExtraValue("validator")
       ELSE ~isPresent(Result.validator)
    /\ IF ExtraHas("asyncValidator")
       THEN Result.asyncValidator = ExtraValue("asyncValidator")
       ELSE ~isPresent(Result.asyncValidator)

C5_Witness ==
  /\ GroupReturned
  /\ ExtraHas("optionals")
  /\ ~ExtraHas("validator")
  /\ IsObject(heap, Result.optionals)
  /\ ~isPresent(Result.validator)
  /\ ~isPresent(Result.asyncValidator)

ContainerCall == last.op \in {"group", "array"} /\ IsRef(pre, last.args[1])

\* The controls the returned group or array holds (none for a Control).
Children ==
  IF Result.kind \in {"ControlGroup", "ControlArray"}
  THEN {Held.elems[i] : i \in 1..Len(Held.elems)}
  ELSE {}

BuilderCall == last.op \in {"control", "group", "array"}

\* C6 as claimed: no object in the result of a control, group or array call
\* (the returned object, its controls container, the controls it holds)
\* existed before the call.
C6_AllFresh ==
  (BuilderCall /\ Returned) =>
    /\ last.result.n > Len(pre)
    /\ \A c \in Children : c.n > Len(pre)

\* C6 amended: the returned object and its controls container are new, and
\* each control it holds is either new or a pre-built instance that the
\* configuration names; the builder itself holds nothing.
C6_FreshOrPassedThrough ==
  /\ builder = {}
  /\ (BuilderCall /\ Returned) =>
       /\ last.result.n > Len(pre)
       /\ Result.kind # "Control" => Result.controls.n > Len(pre)
       /\ \A c \in Children :
            \/ c.n > Len(pre)
            \/ /\ IsInstance(pre, c)
               /\ \E i \in 1..Len(Config.elems) : Config.elems[i] = c

C6_Witness ==
  /\ GroupReturned
  /\ Len(Held.elems) = 2
  /\ Held.elems[1].n > Len(pre)
  /\ Held.elems[2].n <= Len(pre)
  /\ pre[Held.elems[2].n].kind = "ControlGroup"

IsEmptySeq(v) == isArray(pre, v) /\ pre[v.n].elems = <<>>

\* A sequence node whose validator elements cannot be run.
BadTuple(v) ==
  /\ isArray(pre, v)
  /\ \/ Len(pre[v.n].elems) > 1 /\ NotCallable(pre[v.n].elems[2])
     \/ Len(pre[v.n].elems) > 2 /\ NotCallable(pre[v.n].elems[3])

\* The validators the last group or array call hands to the constructor
\* cannot be run.
CtorBad ==
  IF last.op = "group"
  THEN \/ ExtraHas("validator") /\ NotCallable(ExtraValue("validator"))
       \/ ExtraHas("asyncValidator")
            /\ NotCallable(ExtraValue("asyncValidator"))
  ELSE NotCallable(last.args[2]) \/ NotCallable(last.args[3])

EmptySeqInvolved ==
  \/ last.op = "_createControl" /\ IsEmptySeq(last.args[1])
  \/ /\ ContainerCall
     /\ \E i \in 1..Len(Config.elems) : IsEmptySeq(Config.elems[i])

\* C7 as claimed: resolving an empty sequence node through _createControl,
\* group or array ends in a fault.
C7_EmptySeqFaults == EmptySeqInvolved => last.fault

\* C7 amended: nothing is validated; an empty sequence node does not
\* fault: _createControl returns a new Control whose value is undefined
\* with both validators null, group and array hold such a Control for the
\* entry and fault only for another reason. A non-sequence given to array
\* does fault.
C7_EmptySeqIsUndefinedControl ==
  /\ (last.op = "_createControl" /\ IsEmptySeq(last.args[1])) =>
       /\ Returned
       /\ last.result.n = Len(pre) + 1
       /\ Result = ControlObj(Undefined, Null, Null)
  /\ (ContainerCall /\ isArray(pre, last.args[1]) /\ last.op = "array") =>
       \A i \in 1..Len(Config.elems) :
         IsEmptySeq(Config.elems[i]) =>
           /\ last.fault =>
                CtorBad \/ \E j \in 1..Len(Config.elems) :
                             BadTuple(Config.elems[j])
           /\ Returned =>
                heap[Held.elems[i].n] = ControlObj(Undefined, Null, Null)
  /\ (ContainerCall /\ last.op = "group") =>
       \A i \in 1..Len(Config.elems) :
         IsEmptySeq(Config.elems[i]) =>
           /\ last.fault =>
                CtorBad \/ \E j \in 1..Len(Config.elems) :
                             BadTuple(Config.elems[j])
           /\ Returned =>
                heap[Held.elems[i].n] = ControlObj(Undefined, Null, Null)
  /\ (last.op = "array" /\ ~isArray(pre, last.args[1])) => last.fault

C7_Witness ==
  /\ last.op = "_createControl"
  /\ IsEmptySeq(last.args[1])
  /\ Returned
  /\ Result.value = Undefined

\* The entries of the last group or array configuration.
Entries == IF IsRef(pre, last.args[1]) THEN Config.elems ELSE <<>>

EntryFaults(i) == _createControl(pre, Entries[i]).fault

\* The first entry whose resolution faults, 0 when none does.
FirstBad ==
  IF \E i \in 1..Len(Entries) : EntryFaults(i)
  THEN CHOOSE i \in 1..Len(Entries) :
         EntryFaults(i) /\ \A j \in 1..(i - 1) : ~EntryFaults(j)
  ELSE 0

\* The Controls allocated during the last call.
NewControls ==
  {i \in (Len(pre) + 1)..Len(heap) : heap[i].kind = "Control"}

\* C8: when an entry of a group or array configuration faults, or the
\* final constructor does, the call faults: it returns nothing, builds no
\* ControlGroup or ControlArray, and resolves no entry after the first
\* faulting one.
C8_AllOrNothing ==
  last.op \in {"group", "array"} =>
    /\ last.fault =>
         /\ last.result = Undefined
         /\ \A i \in (Len(pre) + 1)..Len(heap) :
              heap[i].kind \notin {"ControlGroup", "ControlArray"}
    /\ FirstBad # 0 =>
         /\ last.fault
         /\ last.n = FirstBad
         /\ Cardinality(NewControls) =
              Cardinality({i \in 1..(FirstBad - 1) :
                             ~IsInstance(pre, Entries[i])})
    /\ (FirstBad = 0 /\ IsRef(pre, last.args[1]) /\ CtorBad) =>
         last.fault /\ last.n = Len(Entries)

C8_Witness ==
  /\ last.op = "group"
  /\ Len(Entries) = 2
  /\ FirstBad = 1
  /\ ~EntryFaults(2)
  /\ last.fault
  /\ NewControls = {}

\* C9: a call leaves every object that existed when it started as it was
\* (the configuration containers and nodes among them), and the controls
\* container of the result is a new one, not the configuration's.
C9_InputsUntouched ==
  last.op \in {"_createControl", "group", "array"} =>
    /\ Len(heap) >= Len(pre)
    /\ \A i \in 1..Len(pre) : heap[i] = pre[i]
    /\ (GroupReturned \/ ArrayReturned) =>
         /\ Result.controls # last.args[1]
         /\ Result.controls.n > Len(pre)

C9_Witness ==
  /\ GroupReturned
  /\ Len(Config.keys) = 2
  /\ isArray(pre, Config.elems[2])
  /\ heap[last.args[1].n] = Config
  /\ Held.elems # Config.elems

\* C10: for a node that is not a pre-built instance _createControl
\* allocates one object, a Control: a plain mapping becomes its value, a
\* sequence gives element 0 (a sequence or an instance included) as its
\* value and its elements from index 3 on are ignored; the same holds of
\* the entries of group and array.
C10_LeafOnly ==
  /\ (last.op = "_createControl" /\ ~IsInstance(pre, last.args[1])
        /\ Returned) =>
       LET node == last.args[1]
       IN /\ Len(heap) = Len(pre) + 1
          /\ last.result = Ref(Len(pre) + 1)
          /\ Result.kind = "Control"
          /\ ~isArray(pre, node) =>
               Result = ControlObj(node, Null, Null)
          /\ isArray(pre, node) =>
               Result = ControlObj(Idx(pre[node.n].elems, 0),
                                   DefaultNull(Idx(pre[node.n].elems, 1)),
                                   DefaultNull(Idx(pre[node.n].elems, 2)))
  /\ (ContainerCall /\ Returned) =>
       \A i \in 1..Len(Entries) :
         ~IsInstance(pre, Entries[i]) =>
           /\ heap[Held.elems[i].n].kind = "Control"
           /\ IsObject(pre, Entries[i]) =>
                heap[Held.elems[i].n].value = Entries[i]

C10_Witness ==
  /\ last.op = "_createControl"
  /\ isArray(pre, last.args[1])
  /\ Len(pre[last.args[1].n].elems) = 4
  /\ Returned
  /\ Result = ControlObj(Str(1), SyncV, AsyncV)

====
